---- MODULE Spec2Model ----
(***************************************************************************)
(* A state-machine model of src/App.tsx: the image request client          *)
(* (generateImage and its retry schedule), the auth-scoped realtime         *)
(* listener effect, and the approve / delete / generate handlers of the     *)
(* App component.                                                           *)
(*                                                                          *)
(* JavaScript values.  A string that may hold a data URI is modelled as the *)
(* tuple of its comma-separated parts (what s.split(',') returns), so that  *)
(* the template `data:image/png;base64,${b}` and split(',')[1] are computed, *)
(* not assumed.  null is the tuple of no parts, which no string splits to.  *)
(***************************************************************************)
EXTENDS Integers, Sequences, FiniteSets, TLC

VARIABLES
    \* useState of App (src/App.tsx 282-292)
    mode, inputText, sketchImage, loading, currentImage, history, error,
    \* Firebase states and the unsubscribe ref (src/App.tsx 302-309)
    db, auth, userId, approvedDesigns, isDbLoading, unsubscribeRef,
    \* position of initializeFirebase and of the listener effect
    initPc, effectPc,
    \* the vendor SDKs: auth.currentUser, an owed auth callback, the store
    \* listeners ever attached and the documents of each collection
    currentUser, authPending, listeners, store,
    \* invocations in flight: generateImage calls, handleGenerate
    \* continuations, approve / delete writes
    calls, genOps, writes,
    \* history: the collection path the local approved list was last built
    \* from, and the users the auth-state callback has delivered, in order
    listSource, delivered

uiVars   == <<mode, inputText, sketchImage, loading, currentImage, history, error>>
fbVars   == <<db, auth, userId, approvedDesigns, isDbLoading, unsubscribeRef,
             listSource, delivered>>
lifeVars == <<initPc, effectPc>>
sdkVars  == <<currentUser, authPending, listeners, store>>
opVars   == <<calls, genOps, writes>>
vars     == <<uiVars, fbVars, lifeVars, sdkVars, opVars>>

----------------------------------------------------------------------------
(* JavaScript values *)

Null == <<>>
Undefined == "undefined"
NoError == "null"
\* a null user / a null userId
NoUser == "null"

\* JS truthiness of a string | null held as comma-separated parts:
\* null and the empty string "" (one empty part) are falsy.
TruthyStr(s) == s # Null /\ s # <<"">>

\* JS truthiness of a response field: undefined and "" are falsy.
Truthy(v) == v # Undefined /\ v # ""

\* s.split(',')[1]
SplitComma1(s) == IF Len(s) >= 2 THEN s[2] ELSE Undefined

----------------------------------------------------------------------------
(* generateImage, src/App.tsx 32-101 *)

MaxRetries == 5

delays == <<1000, 2000, 4000, 8000, 16000>>

GeminiUrl == "gemini-2.5-flash-image-preview:generateContent"
ImagenUrl == "imagen-4.0-generate-001:predict"

\* The request one attempt builds (lines 38-62).
BuildRequest(prompt, imageBase64) ==
    IF TruthyStr(imageBase64)
    THEN [url |-> GeminiUrl, isGemini |-> TRUE,
          text |-> prompt, data |-> SplitComma1(imageBase64)]
    ELSE [url |-> ImagenUrl, isGemini |-> FALSE,
          text |-> prompt, data |-> Undefined]

\* What the network can answer: fetch rejects, or a response with a status
\* and a JSON body whose image fields may be present or not.
Payloads == {Undefined, "", "AAAA", "BBBB"}
NetworkError == [kind |-> "reject"]
HttpResponses == [kind : {"response"}, ok : BOOLEAN,
                  inlineData : Payloads, bytesBase64Encoded : Payloads]
Responses == {NetworkError} \cup HttpResponses

\* `data:image/png;base64,${base64}` (line 90), as comma-separated parts.
DataUri(base64) == <<"data:image/png;base64", base64>>

\* A try block without the checks of the extracted field: any response
\* with a success status yields a data URI.
TryBlockUnchecked(isGemini, resp) ==
    IF resp.kind = "reject" THEN [kind |-> "throw", error |-> "fetch rejected"]
    ELSE IF ~resp.ok THEN [kind |-> "throw", error |-> "HTTP error"]
    ELSE [kind |-> "return",
          value |-> DataUri(IF isGemini THEN resp.inlineData
                            ELSE resp.bytesBase64Encoded)]

\* The try block from the settled fetch on (lines 64-90): what it returns
\* or throws.
TryBlock(isGemini, resp) ==
    IF resp.kind = "reject" THEN [kind |-> "throw", error |-> "fetch rejected"]
    ELSE IF ~resp.ok THEN [kind |-> "throw", error |-> "HTTP error"]
    ELSE IF isGemini
    THEN IF ~Truthy(resp.inlineData)
         THEN [kind |-> "throw", error |-> "No image generated from sketch"]
         ELSE [kind |-> "return", value |-> DataUri(resp.inlineData)]
    ELSE IF ~Truthy(resp.bytesBase64Encoded)
         THEN [kind |-> "throw", error |-> "Invalid response format"]
         ELSE [kind |-> "return", value |-> DataUri(resp.bytesBase64Encoded)]

\* One retry too many: retries <= 5.
ShouldRetryInclusive(retries) == retries <= MaxRetries

\* retries < 5 (line 94)
ShouldRetry(retries) == retries < MaxRetries

\* An index off by one, as if delays were counted from 1.
RetryDelayShifted(retries) ==
    IF retries + 2 <= Len(delays) THEN delays[retries + 2] ELSE 0

\* delays[retries] (line 95); JS arrays count from 0, and setTimeout takes
\* the undefined of an index past the end as no delay.
RetryDelay(retries) ==
    IF retries + 1 <= Len(delays) THEN delays[retries + 1] ELSE 0

\* A generateImage invocation at its first fetch (lines 32-68).
NewCall(prompt, imageBase64) ==
    [prompt |-> prompt, imageBase64 |-> imageBase64, retries |-> 0,
     pc |-> "fetch", requests |-> <<BuildRequest(prompt, imageBase64)>>,
     waits |-> <<>>, outcomes |-> <<>>, lastResponse |-> NetworkError,
     result |-> Null]

\* How the claims classify one attempt's answer for the endpoint asked:
\* a transport failure, or a success status without the image field.
AttemptFails(isGemini, resp) ==
    \/ resp.kind = "reject"
    \/ ~resp.ok
    \/ (isGemini /\ resp.inlineData \in {Undefined, ""})
    \/ (~isGemini /\ resp.bytesBase64Encoded \in {Undefined, ""})

AttemptPayload(isGemini, resp) ==
    IF isGemini THEN resp.inlineData ELSE resp.bytesBase64Encoded

\* One attempt from the settled fetch to the next await, the return or the
\* throw (lines 64-100).
AfterFetch(call, resp) ==
    LET req == call.requests[Len(call.requests)]
        out == TryBlock(req.isGemini, resp)
        seen == [call EXCEPT
                   !.lastResponse = resp,
                   !.outcomes = Append(@, IF AttemptFails(req.isGemini, resp)
                                          THEN "fail" ELSE "ok")]
    IN  IF out.kind = "return"
        THEN [seen EXCEPT !.pc = "returned", !.result = out.value]
        ELSE IF ShouldRetry(call.retries)
        THEN [seen EXCEPT !.pc = "sleep",
                          !.waits = Append(@, RetryDelay(call.retries))]
        ELSE [seen EXCEPT !.pc = "thrown"]

\* A recursion that forgets the reference image.
AfterSleepNoImage(call) ==
    [call EXCEPT !.retries = @ + 1, !.pc = "fetch",
                 !.requests = Append(@, BuildRequest(call.prompt, Null))]

\* The recursive call once the timer has fired (line 96, then 32-68).
AfterSleep(call) ==
    [call EXCEPT !.retries = @ + 1, !.pc = "fetch",
                 !.requests = Append(@, BuildRequest(call.prompt, call.imageBase64))]

FetchSettles(c, resp) ==
    /\ calls[c].pc = "fetch"
    /\ calls' = [calls EXCEPT ![c] = AfterFetch(calls[c], resp)]
    /\ UNCHANGED <<uiVars, fbVars, lifeVars, sdkVars, genOps, writes>>

TimerFires(c) ==
    /\ calls[c].pc = "sleep"
    /\ calls' = [calls EXCEPT ![c] = AfterSleep(calls[c])]
    /\ UNCHANGED <<uiVars, fbVars, lifeVars, sdkVars, genOps, writes>>

GenNext ==
    \/ \E c \in DOMAIN calls, resp \in Responses : FetchSettles(c, resp)
    \/ \E c \in DOMAIN calls : TimerFires(c)

----------------------------------------------------------------------------
(* The document store and the snapshot callback, src/App.tsx 378-391 *)

Users == {"A", "B"}

\* designsCollectionPath (lines 368-370, 427-428, 460-461); __app_id is
\* not defined in this build.
DesignsCollectionPath(uid) ==
    <<"artifacts", "default-app-id", "users", uid, "approvedDesigns">>
Paths == {DesignsCollectionPath(u) : u \in Users}

\* The documents a query of a collection returns; a path nobody wrote to
\* holds none.
DocsAt(path) == IF path \in DOMAIN store THEN store[path] ELSE {}

\* A query snapshot lists its documents by document id.
RECURSIVE InIdOrder(_)
InIdOrder(docs) ==
    IF docs = {} THEN <<>>
    ELSE LET first == CHOOSE d \in docs : \A e \in docs : d.id <= e.id
         IN  <<first>> \o InIdOrder(docs \ {first})

\* { ...base, ...data }: the fields of data override those of base.
Spread(base, data) ==
    [f \in DOMAIN base \cup DOMAIN data |->
        IF f \in DOMAIN data THEN data[f] ELSE base[f]]

\* (data as any).mode || 'fashion' (line 384)
ModeOrDefault(data) ==
    IF "mode" \in DOMAIN data /\ Truthy(data.mode) THEN data.mode ELSE "fashion"

\* The object literal with the spread first: the default then overrides a
\* falsy mode the record holds.
ToDesignSpreadFirst(doc) ==
    Spread(doc.data, [id |-> doc.id, mode |-> ModeOrDefault(doc.data)])

\* The entry pushed for one document (lines 381-386).
ToDesign(doc) ==
    Spread([id |-> doc.id, mode |-> ModeOrDefault(doc.data)], doc.data)

\* The comparator turned round: a.createdAt - b.createdAt.
InsertAsc(sorted, x) ==
    LET after == {i \in 1..Len(sorted) : sorted[i].createdAt <= x.createdAt}
        n == IF after = {} THEN 0 ELSE CHOOSE i \in after : \A j \in after : j <= i
    IN  SubSeq(sorted, 1, n) \o <<x>> \o SubSeq(sorted, n + 1, Len(sorted))

\* Array.prototype.sort with (a, b) => b.createdAt - a.createdAt: a stable
\* sort, so entries that compare equal keep their order.
InsertDesc(sorted, x) ==
    LET after == {i \in 1..Len(sorted) : sorted[i].createdAt >= x.createdAt}
        n == IF after = {} THEN 0 ELSE CHOOSE i \in after : \A j \in after : j <= i
    IN  SubSeq(sorted, 1, n) \o <<x>> \o SubSeq(sorted, n + 1, Len(sorted))

RECURSIVE SortDesc(_)
SortDesc(list) ==
    IF list = <<>> THEN <<>>
    ELSE InsertDesc(SortDesc(SubSeq(list, 1, Len(list) - 1)), list[Len(list)])

\* fetchedDesigns after the forEach and the sort (lines 379-389).
FetchedDesigns(path) ==
    LET docs == InIdOrder(DocsAt(path))
    IN  SortDesc([i \in 1..Len(docs) |-> ToDesign(docs[i])])

----------------------------------------------------------------------------
(* Firebase initialisation and the listener effect, src/App.tsx 313-409 *)

\* Auth-state callbacks delivered in one run of the model.
MaxDeliveries == 3

InitFailedMsg == "Failed to initialize storage."
FetchErrorMsg == "Error fetching approved designs from storage. Check console for path/permissions."

\* What auth.currentUser can be: no user, a user whose uid is empty, a user.
AuthUsers == {NoUser, ""} \cup Users

\* !user || !user.uid (line 354)
NoValidUser(user) == user = NoUser \/ user = ""

\* initializeFirebase up to its await (lines 314-329): the SDK handles are
\* created and set, or the try block throws.
InitializeFirebase(ok) ==
    /\ initPc = "start"
    /\ IF ok
       THEN /\ db' = TRUE /\ auth' = TRUE /\ initPc' = "signin"
            /\ UNCHANGED error
       ELSE /\ error' = InitFailedMsg /\ initPc' = "done"
            /\ UNCHANGED <<db, auth>>
    /\ UNCHANGED <<mode, inputText, sketchImage, loading, currentImage, history,
                   userId, approvedDesigns, isDbLoading, unsubscribeRef,
                   listSource, delivered, effectPc, sdkVars, opVars>>

\* The sign-in settles (lines 325-333): a user is signed in, and the SDK
\* owes its subscribers a callback, or the await throws.
SignInSettles(user) ==
    /\ initPc = "signin"
    /\ initPc' = "done"
    /\ IF user \in Users
       THEN /\ currentUser' = user
            /\ authPending' = (authPending \/ effectPc = "subscribed")
            /\ UNCHANGED error
       ELSE /\ error' = InitFailedMsg
            /\ UNCHANGED <<currentUser, authPending>>
    /\ UNCHANGED <<mode, inputText, sketchImage, loading, currentImage, history,
                   fbVars, effectPc, listeners, store, opVars>>

\* The effect body once auth and db are set (lines 341-351): the previous
\* listener, if the ref holds one, is released, and the auth-state
\* subscription is made; the SDK owes it a first callback.
EffectRun ==
    /\ auth /\ db
    /\ effectPc = "idle"
    /\ effectPc' = "subscribed"
    /\ listeners' = IF unsubscribeRef # 0
                    THEN [listeners EXCEPT ![unsubscribeRef].active = FALSE]
                    ELSE listeners
    /\ unsubscribeRef' = 0
    /\ authPending' = TRUE
    /\ UNCHANGED <<uiVars, db, auth, userId, approvedDesigns, isDbLoading,
                   listSource, delivered, initPc, currentUser, store, opVars>>

\* The auth service changes its user: a sign-out, another identity.
SdkAuthStateChange(user) ==
    /\ auth
    /\ initPc = "done"
    /\ user # currentUser
    /\ currentUser' = user
    /\ authPending' = (authPending \/ effectPc = "subscribed")
    /\ UNCHANGED <<uiVars, fbVars, lifeVars, listeners, store, opVars>>

\* A callback that attaches whatever it is given, valid or not.
AuthCallbackBranchUnchecked(user) ==
    /\ userId' = user
    /\ listeners' = Append(listeners,
                           [path |-> DesignsCollectionPath(user), active |-> TRUE])
    /\ unsubscribeRef' = Len(listeners) + 1
    /\ UNCHANGED <<approvedDesigns, listSource>>

\* The callback's two branches (lines 354-399).
AuthCallbackBranch(user) ==
    IF NoValidUser(user)
    THEN /\ approvedDesigns' = <<>>
         /\ userId' = NoUser
         /\ listSource' = Null
         /\ UNCHANGED <<listeners, unsubscribeRef>>
    ELSE /\ userId' = user
         /\ listeners' = Append(listeners,
                                [path |-> DesignsCollectionPath(user), active |-> TRUE])
         /\ unsubscribeRef' = Len(listeners) + 1
         /\ UNCHANGED <<approvedDesigns, listSource>>

\* The onAuthStateChanged callback (lines 351-400), given the SDK's user.
AuthCallback ==
    /\ effectPc = "subscribed"
    /\ authPending
    /\ Len(delivered) < MaxDeliveries
    /\ authPending' = FALSE
    /\ isDbLoading' = FALSE
    /\ delivered' = Append(delivered, currentUser)
    /\ AuthCallbackBranch(currentUser)
    /\ UNCHANGED <<uiVars, db, auth, lifeVars, currentUser, store, opVars>>

\* The onSnapshot success callback (lines 378-391) for listener l.
Snapshot(l) ==
    /\ listeners[l].active
    /\ approvedDesigns' = FetchedDesigns(listeners[l].path)
    /\ listSource' = listeners[l].path
    /\ error' = NoError
    /\ UNCHANGED <<mode, inputText, sketchImage, loading, currentImage, history,
                   db, auth, userId, isDbLoading, unsubscribeRef, delivered,
                   lifeVars, sdkVars, opVars>>

\* An error handler that gives up the list and the listener.
ListenerErrorDetaches(l) ==
    /\ listeners[l].active
    /\ error' = FetchErrorMsg
    /\ approvedDesigns' = <<>>
    /\ listeners' = [listeners EXCEPT ![l].active = FALSE]
    /\ UNCHANGED <<mode, inputText, sketchImage, loading, currentImage, history,
                   db, auth, userId, isDbLoading, unsubscribeRef,
                   listSource, delivered, lifeVars, currentUser, authPending,
                   store, opVars>>

\* The onSnapshot error callback (lines 392-396) for listener l.
ListenerError(l) ==
    /\ listeners[l].active
    /\ error' = FetchErrorMsg
    /\ UNCHANGED <<mode, inputText, sketchImage, loading, currentImage, history,
                   fbVars, lifeVars, sdkVars, opVars>>

\* The effect's cleanup (lines 403-408).
Cleanup ==
    /\ effectPc = "subscribed"
    /\ effectPc' = "cleaned"
    /\ listeners' = IF unsubscribeRef # 0
                    THEN [listeners EXCEPT ![unsubscribeRef].active = FALSE]
                    ELSE listeners
    /\ UNCHANGED <<uiVars, fbVars, initPc, currentUser, authPending, store, opVars>>

SyncNext ==
    \/ \E ok \in BOOLEAN : InitializeFirebase(ok)
    \/ \E user \in Users \cup {NoUser} : SignInSettles(user)
    \/ EffectRun
    \/ \E user \in AuthUsers : SdkAuthStateChange(user)
    \/ AuthCallback
    \/ \E l \in DOMAIN listeners : Snapshot(l)
    \/ \E l \in DOMAIN listeners : ListenerError(l)
    \/ Cleanup

----------------------------------------------------------------------------
(* Approve, delete and the session history, src/App.tsx 413-476, 749-757 *)

\* Date.now() as the handlers may read it: wall-clock milliseconds, which
\* two reads can see equal.
Timestamps == {1000, 2000}

\* Documents in one collection, counting the approved ones still in flight,
\* and deletes in flight at once.
MaxDocs == 2
MaxDeletes == 1

ApproveNoImageMsg == "Cannot approve design: No generated image or storage not ready."
ApproveAuthMsg == "Cannot approve design: Authentication failed."
SaveFailedMsg == "Failed to save design to storage."
DeleteFailedMsg == "Failed to delete design from storage."

DocIds(path) == {d.id : d \in DocsAt(path)}

PendingAdds(path) ==
    Cardinality({w \in DOMAIN writes :
                    writes[w].kind = "add" /\ writes[w].path = path})

PendingDeletes == Cardinality({w \in DOMAIN writes : writes[w].kind = "delete"})

RemoveAt(seq, i) == SubSeq(seq, 1, i - 1) \o SubSeq(seq, i + 1, Len(seq))

\* A handler that raises the loading flag before it validates.
handleApproveDesignLoadingFirst(now) ==
    /\ IF ~db \/ ~auth \/ ~TruthyStr(currentImage)
       THEN /\ error' = ApproveNoImageMsg
            /\ loading' = TRUE
            /\ UNCHANGED writes
       ELSE IF NoValidUser(currentUser)
       THEN /\ error' = ApproveAuthMsg
            /\ loading' = TRUE
            /\ UNCHANGED writes
       ELSE /\ Cardinality(DocsAt(DesignsCollectionPath(currentUser)))
                   + PendingAdds(DesignsCollectionPath(currentUser)) < MaxDocs
            /\ loading' = TRUE
            /\ writes' = Append(writes,
                   [kind |-> "add", path |-> DesignsCollectionPath(currentUser),
                    data |-> [prompt |-> inputText, imageUrl |-> currentImage,
                              mode |-> mode, createdAt |-> now]])
            /\ UNCHANGED error
    /\ UNCHANGED <<mode, inputText, sketchImage, currentImage, history,
                   fbVars, lifeVars, sdkVars, calls, genOps>>

\* handleApproveDesign up to its await (lines 413-440); now is Date.now().
handleApproveDesign(now) ==
    /\ IF ~db \/ ~auth \/ ~TruthyStr(currentImage)
       THEN /\ error' = ApproveNoImageMsg
            /\ UNCHANGED <<loading, writes>>
       ELSE IF NoValidUser(currentUser)
       THEN /\ error' = ApproveAuthMsg
            /\ UNCHANGED <<loading, writes>>
       ELSE /\ Cardinality(DocsAt(DesignsCollectionPath(currentUser)))
                   + PendingAdds(DesignsCollectionPath(currentUser)) < MaxDocs
            /\ loading' = TRUE
            /\ writes' = Append(writes,
                   [kind |-> "add", path |-> DesignsCollectionPath(currentUser),
                    data |-> [prompt |-> inputText, imageUrl |-> currentImage,
                              mode |-> mode, createdAt |-> now]])
            /\ UNCHANGED error
    /\ UNCHANGED <<mode, inputText, sketchImage, currentImage, history,
                   fbVars, lifeVars, sdkVars, calls, genOps>>

\* A completion that clears the displayed image whatever the outcome.
ApproveSettlesClearsAlways(w, ok, id) ==
    /\ writes[w].kind = "add"
    /\ id \notin DocIds(writes[w].path)
    /\ writes' = RemoveAt(writes, w)
    /\ loading' = FALSE
    /\ currentImage' = Null
    /\ IF ok
       THEN /\ store' = [store EXCEPT ![writes[w].path] =
                            @ \cup {[id |-> id, data |-> writes[w].data]}]
            /\ error' = NoError
       ELSE /\ error' = SaveFailedMsg
            /\ UNCHANGED store
    /\ UNCHANGED <<mode, inputText, sketchImage, history, fbVars, lifeVars,
                   currentUser, authPending, listeners, calls, genOps>>

\* addDoc settles (lines 440-449): the record is stored under a fresh id
\* and the image and the error are cleared, or the error is set.
ApproveSettles(w, ok, id) ==
    /\ writes[w].kind = "add"
    /\ id \notin DocIds(writes[w].path)
    /\ writes' = RemoveAt(writes, w)
    /\ loading' = FALSE
    /\ IF ok
       THEN /\ store' = [store EXCEPT ![writes[w].path] =
                            @ \cup {[id |-> id, data |-> writes[w].data]}]
            /\ error' = NoError
            /\ currentImage' = Null
       ELSE /\ error' = SaveFailedMsg
            /\ UNCHANGED <<store, currentImage>>
    /\ UNCHANGED <<mode, inputText, sketchImage, history, fbVars, lifeVars,
                   currentUser, authPending, listeners, calls, genOps>>

\* handleDeleteDesign up to its await (lines 452-467), for an entry of the
\* approved list.
handleDeleteDesign(id) ==
    /\ IF ~db \/ ~auth \/ NoValidUser(currentUser)
       THEN UNCHANGED <<loading, writes>>
       ELSE /\ PendingDeletes < MaxDeletes
            /\ loading' = TRUE
            /\ writes' = Append(writes,
                   [kind |-> "delete", path |-> DesignsCollectionPath(currentUser),
                    id |-> id])
    /\ UNCHANGED <<mode, inputText, sketchImage, currentImage, history, error,
                   fbVars, lifeVars, sdkVars, calls, genOps>>

\* A completion that takes the entry out of the local list itself when the
\* delete succeeded, instead of waiting for the listener.
DeleteSettlesRemovesLocally(w, ok) ==
    /\ writes[w].kind = "delete"
    /\ writes' = RemoveAt(writes, w)
    /\ loading' = FALSE
    /\ IF ok
       THEN /\ store' = [store EXCEPT ![writes[w].path] =
                            {d \in @ : d.id # writes[w].id}]
            /\ error' = NoError
            /\ approvedDesigns' =
                   SelectSeq(approvedDesigns, LAMBDA e : e.id # writes[w].id)
       ELSE /\ error' = DeleteFailedMsg
            /\ UNCHANGED <<store, approvedDesigns>>
    /\ UNCHANGED <<mode, inputText, sketchImage, currentImage, history,
                   db, auth, userId, isDbLoading, unsubscribeRef, listSource,
                   delivered, lifeVars, currentUser, authPending, listeners,
                   calls, genOps>>

\* deleteDoc settles (lines 467-475): the store removes the document if it
\* holds it, or the write is rejected.
DeleteSettles(w, ok) ==
    /\ writes[w].kind = "delete"
    /\ writes' = RemoveAt(writes, w)
    /\ loading' = FALSE
    /\ IF ok
       THEN /\ store' = [store EXCEPT ![writes[w].path] =
                            {d \in @ : d.id # writes[w].id}]
            /\ error' = NoError
       ELSE /\ error' = DeleteFailedMsg
            /\ UNCHANGED store
    /\ UNCHANGED <<mode, inputText, sketchImage, currentImage, history,
                   fbVars, lifeVars, currentUser, authPending, listeners,
                   calls, genOps>>

\* A click on an entry of the session history (lines 751-756).
HistoryClick(k) ==
    /\ currentImage' = history[k].url
    /\ inputText' = history[k].prompt
    /\ mode' = history[k].mode
    /\ UNCHANGED <<sketchImage, loading, history, error,
                   fbVars, lifeVars, sdkVars, opVars>>

\* Approving, with the history to pick the image from and the listener
\* that reflects the writes.
PersistNext ==
    \/ \E now \in Timestamps : handleApproveDesign(now)
    \/ \E w \in DOMAIN writes, ok \in BOOLEAN, id \in 1..MaxDocs :
          ApproveSettles(w, ok, id)
    \/ \E k \in DOMAIN history : k <= 4 /\ HistoryClick(k)
    \/ \E l \in DOMAIN listeners : Snapshot(l)

\* Deleting entries of the approved list.
DeleteNext ==
    \/ \E k \in DOMAIN approvedDesigns : handleDeleteDesign(approvedDesigns[k].id)
    \/ \E w \in DOMAIN writes, ok \in BOOLEAN : DeleteSettles(w, ok)

----------------------------------------------------------------------------
(* Input domains *)

DesignModes == {"fashion", "architecture"}
InputTexts == {"", " ", "silk gown"}
SketchImages == {Null, DataUri("SKETCH")}

\* String.prototype.trim on the sampled inputs.
Trim(s) == IF s = " " THEN "" ELSE s

\* fullPrompt of handleGenerate (lines 557-574), kept as its parts.
FullPrompt(m, text, sketch) ==
    <<IF TruthyStr(sketch) THEN "transform" ELSE "visualize", m,
      IF Trim(text) # "" THEN Trim(text) ELSE "the structure shown in the sketch">>

\* Arguments generateImage may be given: what handleGenerate passes, and
\* the degenerate strings its type admits.
Prompts == {FullPrompt(m, t, s) : m \in DesignModes, t \in {"", "silk gown"},
                                   s \in SketchImages} \cup {<<>>}
ImageArgs == SketchImages \cup {<<"">>, <<"no comma">>}

----------------------------------------------------------------------------
(* handleGenerate and the controls that start it, src/App.tsx 547-601, 719 *)

\* handleGenerate invocations in one run of the model.
MaxGenerates == 2

EmptyInputMsg == "Please enter a description or upload a sketch."
GenFailedMsg == "Failed to generate visualization. Please try again. The AI model may be unavailable."

\* inputText.trim() || "the structure shown in the sketch" (line 572)
Subject(text) ==
    IF Trim(text) # "" THEN Trim(text) ELSE "the structure shown in the sketch"

\* handleGenerate up to its await (lines 547-577): the validation, the three
\* setters, and the generateImage call at its first fetch.  The continuation
\* keeps the mode, the subject and the sketch it closed over.
handleGenerate ==
    IF Trim(inputText) = "" /\ ~TruthyStr(sketchImage)
    THEN /\ error' = EmptyInputMsg
         /\ UNCHANGED <<mode, inputText, sketchImage, loading, currentImage,
                        history, fbVars, lifeVars, sdkVars, opVars>>
    ELSE /\ Len(genOps) < MaxGenerates
         /\ loading' = TRUE
         /\ error' = NoError
         /\ currentImage' = Null
         /\ calls' = Append(calls,
                NewCall(FullPrompt(mode, inputText, sketchImage), sketchImage))
         /\ genOps' = Append(genOps,
                [call |-> Len(calls) + 1, pc |-> "await", mode |-> mode,
                 subject |-> Subject(inputText),
                 hasSketch |-> TruthyStr(sketchImage), settled |-> 0])
         /\ UNCHANGED <<mode, inputText, sketchImage, history,
                        fbVars, lifeVars, sdkVars, writes>>

\* The generate button (lines 719-720), which the loading flag disables.
GenerateClick ==
    /\ ~(loading \/ (inputText = "" /\ ~TruthyStr(sketchImage)))
    /\ handleGenerate

\* handleKeyPress (lines 596-601) on the textarea, which nothing disables.
handleKeyPress(key, shiftKey) ==
    IF key = "Enter" /\ ~shiftKey
    THEN handleGenerate
    ELSE UNCHANGED vars

\* handleGenerate invocations whose continuation has run.
Settled == Cardinality({g \in DOMAIN genOps : genOps[g].pc = "done"})

\* A continuation that drops the response of a call that is no longer the
\* latest one started.
GenerateReturnsLatestOnly(g) ==
    /\ genOps[g].pc = "await"
    /\ calls[genOps[g].call].pc = "returned"
    /\ genOps' = [genOps EXCEPT ![g].pc = "done", ![g].settled = Settled + 1]
    /\ loading' = FALSE
    /\ IF g = Len(genOps)
       THEN /\ currentImage' = calls[genOps[g].call].result
            /\ history' = <<[url |-> calls[genOps[g].call].result,
                             prompt |-> genOps[g].subject, mode |-> genOps[g].mode,
                             hasSketch |-> genOps[g].hasSketch]>> \o history
       ELSE UNCHANGED <<currentImage, history>>
    /\ UNCHANGED <<mode, inputText, sketchImage, error,
                   fbVars, lifeVars, sdkVars, calls, writes>>

\* generateImage returned (lines 577-587, 591-593): the image is displayed
\* and put first in the session history.
GenerateReturns(g) ==
    /\ genOps[g].pc = "await"
    /\ calls[genOps[g].call].pc = "returned"
    /\ genOps' = [genOps EXCEPT ![g].pc = "done", ![g].settled = Settled + 1]
    /\ currentImage' = calls[genOps[g].call].result
    /\ history' = <<[url |-> calls[genOps[g].call].result,
                     prompt |-> genOps[g].subject, mode |-> genOps[g].mode,
                     hasSketch |-> genOps[g].hasSketch]>> \o history
    /\ loading' = FALSE
    /\ UNCHANGED <<mode, inputText, sketchImage, error,
                   fbVars, lifeVars, sdkVars, calls, writes>>

\* A catch block that also records the failed request in the history.
GenerateThrowsRecords(g) ==
    /\ genOps[g].pc = "await"
    /\ calls[genOps[g].call].pc = "thrown"
    /\ genOps' = [genOps EXCEPT ![g].pc = "done", ![g].settled = Settled + 1]
    /\ error' = GenFailedMsg
    /\ history' = <<[url |-> Null, prompt |-> genOps[g].subject,
                     mode |-> genOps[g].mode,
                     hasSketch |-> genOps[g].hasSketch]>> \o history
    /\ loading' = FALSE
    /\ UNCHANGED <<mode, inputText, sketchImage, currentImage,
                   fbVars, lifeVars, sdkVars, calls, writes>>

\* generateImage threw (lines 588-593): the error is shown.
GenerateThrows(g) ==
    /\ genOps[g].pc = "await"
    /\ calls[genOps[g].call].pc = "thrown"
    /\ genOps' = [genOps EXCEPT ![g].pc = "done", ![g].settled = Settled + 1]
    /\ error' = GenFailedMsg
    /\ loading' = FALSE
    /\ UNCHANGED <<mode, inputText, sketchImage, currentImage, history,
                   fbVars, lifeVars, sdkVars, calls, writes>>

\* A settled generateImage promise whose awaiting handleGenerate has not
\* resumed yet: promise continuations run before the next event or timer.
ContinuationOwed ==
    \E g \in DOMAIN genOps :
        genOps[g].pc = "await" /\ calls[genOps[g].call].pc \in {"returned", "thrown"}

\* The answers the generation service gives in the runs of the component:
\* a failed transport, or one of two images.
GenResponses ==
    {NetworkError} \cup
    {[kind |-> "response", ok |-> TRUE, inlineData |-> p, bytesBase64Encoded |-> p] :
        p \in {"AAAA", "BBBB"}}

\* Generating from the button and from the keyboard, with the requests
\* and timers of the calls in flight.
UiNext ==
    \/ ~ContinuationOwed /\ GenerateClick
    \/ ~ContinuationOwed /\ \E key \in {"Enter", "a"}, shiftKey \in BOOLEAN :
                                handleKeyPress(key, shiftKey)
    \/ ~ContinuationOwed /\ \E c \in DOMAIN calls, resp \in GenResponses :
                                FetchSettles(c, resp)
    \/ ~ContinuationOwed /\ \E c \in DOMAIN calls : TimerFires(c)
    \/ \E g \in DOMAIN genOps : GenerateReturns(g)
    \/ \E g \in DOMAIN genOps : GenerateThrows(g)

----------------------------------------------------------------------------
(* Initial states, src/App.tsx 281-309 *)

UiInit ==
    /\ mode = "fashion" /\ inputText = "" /\ sketchImage = Null
    /\ loading = FALSE /\ currentImage = Null /\ history = <<>>
    /\ error = NoError

FbInit ==
    /\ db = FALSE /\ auth = FALSE /\ userId = NoUser
    /\ approvedDesigns = <<>> /\ isDbLoading = TRUE /\ unsubscribeRef = 0
    /\ listSource = Null /\ delivered = <<>>
    /\ initPc = "start" /\ effectPc = "idle"
    /\ currentUser = NoUser /\ authPending = FALSE /\ listeners = <<>>

OpsInit == calls = <<>> /\ genOps = <<>> /\ writes = <<>>

\* Documents earlier sessions and earlier versions left in the store: with
\* and without the mode field, and with a mode that is the empty string.
StoredData ==
    {[prompt |-> "old", imageUrl |-> DataUri("OLD"), createdAt |-> 1000],
     [prompt |-> "old", imageUrl |-> DataUri("OLD"), createdAt |-> 2000,
      mode |-> "architecture"],
     [prompt |-> "old", imageUrl |-> DataUri("OLD"), createdAt |-> 2000,
      mode |-> ""]}

\* One user's collection with a record of each kind, the other's with one.
SyncStore ==
    [p \in Paths |->
        IF p = DesignsCollectionPath("A")
        THEN {[id |-> 1, data |-> [prompt |-> "old", imageUrl |-> DataUri("OLD"),
                                   createdAt |-> 1000]],
              [id |-> 2, data |-> [prompt |-> "old", imageUrl |-> DataUri("OLD"),
                                   createdAt |-> 2000, mode |-> "architecture"]]}
        ELSE {[id |-> 1, data |-> [prompt |-> "old", imageUrl |-> DataUri("OLD"),
                                   createdAt |-> 2000, mode |-> ""]]}]

EmptyStore == [p \in Paths |-> {}]

\* The component after construction, with nothing stored yet.
AppInit == UiInit /\ FbInit /\ OpsInit /\ store = EmptyStore

\* One generateImage call on its own, for any arguments.
GenInit ==
    /\ UiInit /\ FbInit /\ store = EmptyStore
    /\ genOps = <<>> /\ writes = <<>>
    /\ \E p \in Prompts, i \in ImageArgs : calls = <<NewCall(p, i)>>

\* The component after construction, over a store that holds records.
SyncInit == UiInit /\ FbInit /\ OpsInit /\ store \in {EmptyStore, SyncStore}

SyncSpec == SyncInit /\ [][SyncNext]_vars

\* One entry of the session history (lines 580-587).
HistoryEntry(url, m) ==
    [url |-> url, prompt |-> "silk gown", mode |-> m, hasSketch |-> FALSE]

\* What an earlier session left in user A's collection.
PersistStores ==
    {[p \in Paths |-> IF p = DesignsCollectionPath("A") THEN docs ELSE {}] :
        docs \in {{}} \cup {{[id |-> 1, data |-> d]} : d \in StoredData}}

\* The component after two successful generations: the storage failed to
\* initialise, or it is ready and the auth-state callback has delivered
\* user A (whose listener is attached) or no user.
PersistInit ==
    /\ \E m \in DesignModes :
          /\ mode = m
          /\ history = <<HistoryEntry(DataUri("BBBB"), m), HistoryEntry(DataUri("AAAA"), m)>>
    /\ inputText = "silk gown" /\ sketchImage = Null /\ loading = FALSE
    /\ currentImage = DataUri("BBBB") /\ error = NoError
    /\ approvedDesigns = <<>> /\ listSource = Null
    /\ OpsInit
    /\ store \in PersistStores
    /\ \/ /\ db = FALSE /\ auth = FALSE /\ initPc = "done" /\ effectPc = "idle"
          /\ currentUser = NoUser /\ userId = NoUser /\ authPending = FALSE
          /\ delivered = <<>> /\ listeners = <<>> /\ unsubscribeRef = 0
          /\ isDbLoading = TRUE
       \/ /\ db = TRUE /\ auth = TRUE /\ initPc = "done" /\ effectPc = "subscribed"
          /\ currentUser = NoUser /\ userId = NoUser /\ authPending = FALSE
          /\ delivered = <<NoUser>> /\ listeners = <<>> /\ unsubscribeRef = 0
          /\ isDbLoading = FALSE
       \/ /\ db = TRUE /\ auth = TRUE /\ initPc = "done" /\ effectPc = "subscribed"
          /\ currentUser = "A" /\ userId = "A" /\ authPending = FALSE
          /\ delivered = <<"A">> /\ unsubscribeRef = 1
          /\ listeners = <<[path |-> DesignsCollectionPath("A"), active |-> TRUE]>>
          /\ isDbLoading = FALSE

PersistSpec == PersistInit /\ [][PersistNext]_vars

\* Approving and deleting while the listener reflects the writes and the
\* user may sign out.
StorageNext ==
    \/ \E now \in Timestamps : handleApproveDesign(now)
    \/ \E w \in DOMAIN writes, ok \in BOOLEAN, id \in 1..MaxDocs :
          ApproveSettles(w, ok, id)
    \/ DeleteNext
    \/ \E l \in DOMAIN listeners : Snapshot(l)
    \/ SdkAuthStateChange(NoUser)
    \/ AuthCallback

\* The component after one successful generation, with the storage ready,
\* user A delivered and A's listener attached, over the one record an
\* earlier session left in A's collection.
StorageInit ==
    /\ mode = "fashion" /\ inputText = "silk gown" /\ sketchImage = Null
    /\ history = <<HistoryEntry(DataUri("BBBB"), "fashion")>>
    /\ loading = FALSE /\ currentImage = DataUri("BBBB") /\ error = NoError
    /\ approvedDesigns = <<>> /\ listSource = Null
    /\ OpsInit
    /\ store = [p \in Paths |->
                  IF p = DesignsCollectionPath("A")
                  THEN {[id |-> 1,
                         data |-> [prompt |-> "old", imageUrl |-> DataUri("OLD"),
                                   createdAt |-> 1000]]}
                  ELSE {}]
    /\ db = TRUE /\ auth = TRUE /\ initPc = "done" /\ effectPc = "subscribed"
    /\ currentUser = "A" /\ userId = "A" /\ authPending = FALSE
    /\ delivered = <<"A">> /\ unsubscribeRef = 1
    /\ listeners = <<[path |-> DesignsCollectionPath("A"), active |-> TRUE]>>
    /\ isDbLoading = FALSE

StorageSpec == StorageInit /\ [][StorageNext]_vars

\* The component with its inputs filled in some way and nothing started.
GenerateInit ==
    /\ mode \in DesignModes /\ inputText \in InputTexts
    /\ sketchImage \in SketchImages
    /\ loading = FALSE /\ currentImage = Null /\ history = <<>>
    /\ error = NoError
    /\ FbInit /\ OpsInit /\ store = EmptyStore

UiSpec == GenerateInit /\ [][UiNext]_vars

GenSpec == GenInit /\ [][GenNext]_vars

\* A settled fetch is handled and a set timer fires.
GenFairSpec == GenSpec /\ WF_vars(GenNext)

----------------------------------------------------------------------------
(* The image request client: C1, C2, C5 (GenSpec, GenFairSpec) *)

\* The schedule the specification gives: 1s, 2s, 4s, 8s, 16s.
ScheduleMs(k) == 1000 * (2 ^ (k - 1))

AllFail(outcomes, n) == \A k \in 1..n : outcomes[k] = "fail"

\* C1: a call whose first N attempts fail (0 <= N <= 5) and whose attempt
\* N+1 succeeds returns the data URI of that successful response, after
\* exactly N retries (N+1 requests), and the wait before the k-th retry is
\* the k-th element of 1s, 2s, 4s, 8s, 16s.
C1_RetryThenSuccess ==
    \A c \in DOMAIN calls :
        LET call == calls[c]
            n == Len(call.outcomes)
            isGemini == call.requests[Len(call.requests)].isGemini
        IN  /\ (n >= 1 /\ n <= 6 /\ AllFail(call.outcomes, n - 1)
                   /\ call.outcomes[n] = "ok")
               => /\ call.pc = "returned"
                  /\ call.result = DataUri(AttemptPayload(isGemini, call.lastResponse))
                  /\ call.retries = n - 1
                  /\ Len(call.requests) = n
                  /\ Len(call.waits) = n - 1
            /\ call.pc = "returned"
               => /\ n >= 1 /\ call.outcomes[n] = "ok" /\ AllFail(call.outcomes, n - 1)
            /\ \A k \in 1..Len(call.waits) : call.waits[k] = ScheduleMs(k)

\* Five failures, five waits 1s..16s, then a success that is returned.
C1_Witness ==
    \E c \in DOMAIN calls :
        /\ calls[c].pc = "returned" /\ calls[c].retries = 5
        /\ calls[c].waits = <<1000, 2000, 4000, 8000, 16000>>
        /\ calls[c].result = DataUri("AAAA")

C2_AttemptsBounded ==
    \A c \in DOMAIN calls :
        LET call == calls[c]
            n == Len(call.outcomes)
        IN  /\ Len(call.requests) <= 6
            /\ (n = 6 /\ AllFail(call.outcomes, 6))
               => (call.pc = "thrown" /\ Len(call.requests) = 6)
            /\ call.pc = "thrown" => (n = 6 /\ AllFail(call.outcomes, 6))

C2_NoCallAfterThrow ==
    \A c \in DOMAIN calls :
        calls[c].pc = "thrown" => (c \in DOMAIN calls' /\ calls'[c] = calls[c])

C2_Settled ==
    \A c \in DOMAIN calls : calls[c].pc \in {"returned", "thrown"}

\* C2: six consecutive failed attempts make the call throw after the sixth
\* attempt; a call that has thrown issues no further request; no call makes
\* more than six attempts; and every call settles (returns or throws), given
\* that each fetch settles and each timer fires.
C2_SixFailuresThenThrow ==
    /\ []C2_AttemptsBounded
    /\ [][C2_NoCallAfterThrow]_vars
    /\ <>C2_Settled

\* A call that has thrown after six requests.
C2_Witness ==
    \E c \in DOMAIN calls :
        /\ calls[c].pc = "thrown"
        /\ Len(calls[c].requests) = 6
        /\ AllFail(calls[c].outcomes, 6)

\* C5: a call without a reference image (null) sends every request to the
\* text-to-image endpoint, a call with a reference image (a non-empty
\* string) sends every request to the image+text endpoint, and every retry
\* of a call targets the endpoint of its first attempt, with the same prompt.
C5_EndpointByReference ==
    \A c \in DOMAIN calls :
        LET call == calls[c] IN
        \A k \in DOMAIN call.requests :
            /\ call.imageBase64 = <<>> => call.requests[k].url = ImagenUrl
            /\ (Len(call.imageBase64) >= 1 /\ call.imageBase64[1] # "")
               => call.requests[k].url = GeminiUrl
            /\ call.requests[k].url = call.requests[1].url
            /\ call.requests[k].text = call.prompt

\* A call with a reference image that has retried at least twice.
C5_Witness ==
    \E c \in DOMAIN calls :
        /\ calls[c].imageBase64 = DataUri("SKETCH")
        /\ Len(calls[c].requests) >= 3
        /\ calls[c].requests[3].url = GeminiUrl

----------------------------------------------------------------------------
(* The realtime sync adapter: C3, C4, C10 (SyncSpec) *)

\* C3: when the auth-state callback delivers identity A and later identity
\* B, the listener scoped to A is released before the listener scoped to B
\* is attached: in no reachable state are listeners of two different
\* identities both active.
C3_OneIdentityListening ==
    \A i, j \in DOMAIN listeners :
        (listeners[i].active /\ listeners[j].active)
            => listeners[i].path = listeners[j].path

\* A user with a non-empty uid.
IsIdentity(u) == u # "null" /\ u # ""

\* C4: the store listeners are exactly those attached for the users with a
\* non-empty uid that the auth-state callback has delivered, one for each
\* in order, each on the collection path scoped by exactly that uid; a
\* callback with no user or no uid therefore attaches none, and no listener
\* exists before a valid identity was delivered.
C4_ListenersOnlyForIdentities ==
    LET valid == SelectSeq(delivered, IsIdentity)
    IN  /\ Len(listeners) = Len(valid)
        /\ \A k \in DOMAIN listeners :
              listeners[k].path =
                  <<"artifacts", "default-app-id", "users", valid[k], "approvedDesigns">>
        /\ unsubscribeRef \in 0..Len(listeners)

\* A callback without a user, one with an identity, one with an empty uid:
\* a single listener, for the identity, is active.
C4_Witness ==
    /\ delivered = <<"null", "A", "">>
    /\ Len(listeners) = 1
    /\ listeners[1].active
    /\ listeners[1].path = DesignsCollectionPath("A")

\* A step that sets the listener error message changes nothing else and
\* leaves every attached listener attached.
C10_ErrorStep ==
    (error' = FetchErrorMsg /\ error # FetchErrorMsg)
        => /\ approvedDesigns' = approvedDesigns
           /\ listeners' = listeners
           /\ unsubscribeRef' = unsubscribeRef
           /\ UNCHANGED <<mode, inputText, sketchImage, loading, currentImage,
                          history, db, auth, userId, isDbLoading, listSource,
                          lifeVars, currentUser, authPending, store, opVars>>
           /\ \E l \in DOMAIN listeners : listeners[l].active /\ listeners'[l].active

\* A snapshot delivered while the error is shown replaces the list by the
\* listener's collection and clears the error.
C10_SnapshotStep ==
    \A l \in DOMAIN listeners :
        (error = FetchErrorMsg /\ Snapshot(l))
            => /\ error' = NoError
               /\ Len(approvedDesigns') = Cardinality(DocsAt(listeners[l].path))
               /\ {approvedDesigns'[k].id : k \in DOMAIN approvedDesigns'}
                      = {d.id : d \in DocsAt(listeners[l].path)}

\* While the error is shown and the component is mounted, a listener is
\* attached, which is all a snapshot delivery needs.
C10_StillListening ==
    (error = FetchErrorMsg /\ effectPc = "subscribed")
        => \E l \in DOMAIN listeners : listeners[l].active

\* C10: a listener error sets the user-visible error and changes nothing
\* else (the approved list and the listeners' attachment are unchanged); the
\* listener stays attached, so a snapshot can still be delivered, and one
\* delivered then replaces the list and clears the error.
C10_ListenerErrorKeepsListening ==
    /\ []C10_StillListening
    /\ [][C10_ErrorStep /\ C10_SnapshotStep]_vars

\* The error is shown over a list an earlier snapshot built, and the
\* listener of that collection is still attached.
C10_Witness ==
    /\ error = FetchErrorMsg
    /\ approvedDesigns # <<>>
    /\ \E l \in DOMAIN listeners :
          listeners[l].active /\ listeners[l].path = listSource

----------------------------------------------------------------------------
(* Approve and the snapshot adapter: C6, C7, C8, C9 (PersistSpec) *)

\* C6: handleApproveDesign invoked with no currently generated image sets
\* the validation error and issues no write: nothing is added to the writes
\* in flight or to the store, and the loading flag and the displayed image
\* are as before.
C6_ApproveWithoutImage ==
    [][\A now \in Timestamps :
          (currentImage = <<>> /\ handleApproveDesign(now))
              => /\ error' = "Cannot approve design: No generated image or storage not ready."
                 /\ writes' = writes
                 /\ store' = store
                 /\ loading' = loading
                 /\ currentImage' = currentImage]_vars

\* The validation error shown by a component whose store is ready and
\* which displays no image.
C6_Witness ==
    /\ error = ApproveNoImageMsg
    /\ currentImage = <<>>
    /\ db /\ auth /\ currentUser = "A"
    /\ writes = <<>>

\* C7 as stated: when the write succeeds the displayed image and the error
\* are cleared; when it fails the error is set and the displayed image is
\* the one displayed when the approve was invoked (the image the write
\* carries).
C7_FailureShowsInvokedImage ==
    [][\A w \in DOMAIN writes, ok \in BOOLEAN, id \in 1..MaxDocs :
          ApproveSettles(w, ok, id)
              => IF ok
                 THEN currentImage' = <<>> /\ error' = NoError
                 ELSE /\ error' = SaveFailedMsg
                      /\ currentImage' = writes[w].data.imageUrl]_vars

\* C7, amended: when the write succeeds the displayed image and the error
\* are cleared; when it fails the error is set and the failure handling
\* leaves the displayed image as it was just before the write settled.
C7_FailureLeavesImage ==
    [][\A w \in DOMAIN writes, ok \in BOOLEAN, id \in 1..MaxDocs :
          ApproveSettles(w, ok, id)
              => IF ok
                 THEN currentImage' = <<>> /\ error' = NoError
                 ELSE /\ error' = SaveFailedMsg
                      /\ currentImage' = currentImage]_vars

\* A failed approve: the error is shown and the image is still displayed.
C7_Witness ==
    /\ error = SaveFailedMsg
    /\ currentImage # <<>>
    /\ writes = <<>>
    /\ ~loading

\* C8 as stated: the approved list is sorted strictly by createdAt
\* descending.
C8_StrictlyDescending ==
    \A k \in 1..(Len(approvedDesigns) - 1) :
        approvedDesigns[k].createdAt > approvedDesigns[k + 1].createdAt

\* C8, amended: the approved list is sorted by createdAt descending, ties
\* allowed: of two adjacent entries the earlier one's createdAt is greater
\* than or equal to the later one's.
C8_SortedDescending ==
    \A k \in 1..(Len(approvedDesigns) - 1) :
        approvedDesigns[k].createdAt >= approvedDesigns[k + 1].createdAt

\* A list of two whose newer entry has the greater document id: the
\* snapshot listed it last and the sort moved it first.
C8_Witness ==
    /\ Len(approvedDesigns) = 2
    /\ approvedDesigns[1].createdAt > approvedDesigns[2].createdAt
    /\ approvedDesigns[1].id > approvedDesigns[2].id

\* C9: the entry a snapshot builds from a record has mode 'fashion' when
\* the record has no mode field, and the record's own mode value when it has
\* one, whatever that value is; the list has one entry for each record.
C9_ModeDefaulted ==
    [][\A l \in DOMAIN listeners :
          Snapshot(l)
              => LET docs == DocsAt(listeners[l].path) IN
                 /\ Len(approvedDesigns') = Cardinality(docs)
                 /\ \A d \in docs :
                       \E k \in DOMAIN approvedDesigns' :
                           /\ approvedDesigns'[k].id = d.id
                           /\ approvedDesigns'[k].mode =
                                 IF "mode" \in DOMAIN d.data
                                 THEN d.data.mode ELSE "fashion"]_vars

\* A list built from a record without the field, which got the default, and
\* a record with the field, which kept its value.
C9_Witness ==
    \E j, k \in DOMAIN approvedDesigns :
        \E dj, dk \in DocsAt(listSource) :
            /\ dj.id = approvedDesigns[j].id /\ dk.id = approvedDesigns[k].id
            /\ "mode" \notin DOMAIN dj.data /\ approvedDesigns[j].mode = "fashion"
            /\ "mode" \in DOMAIN dk.data /\ dk.data.mode = "architecture"
            /\ approvedDesigns[k].mode = "architecture"

----------------------------------------------------------------------------
(* Writes and the local list: C11, C14 (StorageSpec) *)

\* C11: no step of handleApproveDesign or handleDeleteDesign, before or
\* after its write settles and whether the write succeeds or fails, changes
\* the local approved list; every step that changes the list is a listener
\* snapshot, or an auth-state callback without identity, which empties it.
C11_ListChangesOnlyBySnapshot ==
    [][/\ \A now \in Timestamps :
             handleApproveDesign(now) => approvedDesigns' = approvedDesigns
       /\ \A w \in DOMAIN writes, ok \in BOOLEAN, id \in 1..MaxDocs :
             ApproveSettles(w, ok, id) => approvedDesigns' = approvedDesigns
       /\ \A id \in 1..MaxDocs :
             handleDeleteDesign(id) => approvedDesigns' = approvedDesigns
       /\ \A w \in DOMAIN writes, ok \in BOOLEAN :
             DeleteSettles(w, ok) => approvedDesigns' = approvedDesigns
       /\ approvedDesigns' # approvedDesigns
             => \/ \E l \in DOMAIN listeners : Snapshot(l)
                \/ /\ AuthCallback
                   /\ ~IsIdentity(currentUser)
                   /\ approvedDesigns' = <<>>]_vars

\* Both writes have succeeded and the list shows neither yet: it still
\* holds the entry whose record was deleted and lacks the record that was
\* approved.
C11_Witness ==
    /\ writes = <<>>
    /\ \E k \in DOMAIN approvedDesigns :
          approvedDesigns[k].id \notin DocIds(DesignsCollectionPath("A"))
    /\ \E d \in DocsAt(DesignsCollectionPath("A")) :
          /\ d.data.imageUrl = DataUri("BBBB")
          /\ \A k \in DOMAIN approvedDesigns : approvedDesigns[k].id # d.id

\* C14: a delete of an id that the identity's collection does not hold
\* ends with the delete failure message shown and the loading flag false.
C14_NonexistentDeleteFails ==
    [][\A w \in DOMAIN writes, ok \in BOOLEAN :
          (DeleteSettles(w, ok) /\ writes[w].id \notin DocIds(writes[w].path))
              => /\ error' = "Failed to delete design from storage."
                 /\ loading' = FALSE]_vars

----------------------------------------------------------------------------
(* The listener's lifecycle: C12, C13, C18 (SyncSpec) *)

\* C12: once the effect's cleanup has run (which also ends the auth-state
\* subscription), whatever auth-state callbacks came before it, no store
\* listener the component attached is still active.
C12_TeardownReleasesAll ==
    effectPc = "cleaned" => \A l \in DOMAIN listeners : ~listeners[l].active

\* C13: when the latest auth-state callback delivered no user and the one
\* before it delivered a valid identity (a sign-out), no store listener is
\* active.
C13_SignOutReleases ==
    LET n == Len(delivered) IN
    (n >= 2 /\ ~IsIdentity(delivered[n]) /\ IsIdentity(delivered[n - 1]))
        => \A l \in DOMAIN listeners : ~listeners[l].active

\* C18: the approved list holds records only of the collection scoped to
\* the identity the auth-state callback delivered most recently: it is
\* empty while no callback or a callback without identity was the latest,
\* and otherwise it was built from the latest identity's collection.
C18_ListScopedToDelivered ==
    LET n == Len(delivered) IN
    approvedDesigns # <<>>
        => /\ n >= 1
           /\ IsIdentity(delivered[n])
           /\ listSource = DesignsCollectionPath(delivered[n])

----------------------------------------------------------------------------
(* The image request client, malformed responses: C16 (GenSpec) *)

\* A response with a success status whose body lacks the image field the
\* endpoint asked is expected to carry.
MissingPayload(isGemini, resp) ==
    /\ resp.kind = "response" /\ resp.ok
    /\ (IF isGemini THEN resp.inlineData ELSE resp.bytesBase64Encoded) = "undefined"

\* C16: an attempt answered with a success status but no image payload
\* field returns no result and is followed by exactly what follows the
\* same response with a non-success status: while fewer than 5 retries
\* were made, the wait of the 1s, 2s, 4s, 8s, 16s schedule for this retry
\* and then another attempt; after 5 retries, the throw.
C16_MissingPayloadIsFailure ==
    [][\A c \in DOMAIN calls, resp \in HttpResponses :
          LET call == calls[c]
              isGemini == call.requests[Len(call.requests)].isGemini
              refused == AfterFetch(call, [resp EXCEPT !.ok = FALSE])
          IN  (MissingPayload(isGemini, resp) /\ FetchSettles(c, resp))
                 => /\ calls'[c].result = <<>>
                    /\ calls'[c].pc # "returned"
                    /\ calls'[c].pc = refused.pc
                    /\ calls'[c].retries = refused.retries
                    /\ calls'[c].waits = refused.waits
                    /\ calls'[c].requests = refused.requests
                    /\ calls'[c].outcomes = refused.outcomes
                    /\ IF call.retries < 5
                       THEN /\ calls'[c].pc = "sleep"
                            /\ calls'[c].waits =
                                  Append(call.waits, ScheduleMs(call.retries + 1))
                       ELSE calls'[c].pc = "thrown"]_vars

\* A call whose sixth attempt, like one before it, was answered with a
\* success status and no image field: it has thrown after the five waits.
C16_Witness ==
    \E c \in DOMAIN calls :
        /\ calls[c].pc = "thrown"
        /\ MissingPayload(calls[c].requests[6].isGemini, calls[c].lastResponse)
        /\ calls[c].waits = <<1000, 2000, 4000, 8000, 16000>>

----------------------------------------------------------------------------
(* handleGenerate: C15, C17, C19 (UiSpec) *)

\* The only handleGenerate invocation the session has made.
OnlyOp == Len(genOps) = 1

C15_NoErrorWhileRetrying ==
    (OnlyOp /\ genOps[1].pc = "await")
        => /\ error = NoError
           /\ currentImage = <<>>
           /\ history = <<>>
           /\ loading

C15_ErrorAfterSixth ==
    (OnlyOp /\ genOps[1].pc = "done" /\ calls[genOps[1].call].pc = "thrown")
        => /\ error = GenFailedMsg
           /\ currentImage = <<>>
           /\ history = <<>>
           /\ Len(calls[genOps[1].call].requests) = 6
           /\ AllFail(calls[genOps[1].call].outcomes, 6)

C15_ErrorSetOnce ==
    (OnlyOp /\ Len(genOps') = 1 /\ error' # error)
        => /\ error = NoError
           /\ error' = GenFailedMsg
           /\ calls[genOps[1].call].pc = "thrown"
           /\ Len(calls[genOps[1].call].outcomes) = 6
           /\ genOps[1].pc = "await" /\ genOps'[1].pc = "done"

\* C15: for a single handleGenerate call whose attempts all fail, no error
\* is shown (and no image, and no history entry) while the call is still
\* retrying; the error changes exactly once, to the generation failure
\* message, in the step that follows the sixth failed attempt; after it no
\* image is displayed and the session history has no entry.
C15_SingleErrorAfterExhaustion ==
    /\ [](C15_NoErrorWhileRetrying /\ C15_ErrorAfterSixth)
    /\ [][C15_ErrorSetOnce]_vars

\* One call, six failed requests behind it, and the failure message shown.
C15_Witness ==
    /\ OnlyOp /\ genOps[1].pc = "done"
    /\ calls[genOps[1].call].pc = "thrown"
    /\ calls[genOps[1].call].waits = <<1000, 2000, 4000, 8000, 16000>>
    /\ error = GenFailedMsg /\ ~loading

\* C17: when two or more handleGenerate calls have all succeeded and all
\* completed, the displayed image is the result of the call whose response
\* arrived last, whichever call was started first.
C17_LastArrivalWins ==
    (/\ Len(genOps) >= 2
     /\ \A g \in DOMAIN genOps :
           genOps[g].pc = "done" /\ calls[genOps[g].call].pc = "returned")
        => \E g \in DOMAIN genOps :
              /\ genOps[g].settled = Len(genOps)
              /\ currentImage = calls[genOps[g].call].result

\* Two calls that overlapped: the second was started while the first was
\* pending, answered first, and the first call's different image, which
\* arrived last, is the one displayed.
C17_Witness ==
    /\ Len(genOps) = 2
    /\ genOps[1].pc = "done" /\ genOps[2].pc = "done"
    /\ genOps[1].settled = 2 /\ genOps[2].settled = 1
    /\ calls[genOps[1].call].result = DataUri("AAAA")
    /\ calls[genOps[2].call].result = DataUri("BBBB")
    /\ currentImage = DataUri("AAAA")

\* C19: while a generate, approve or delete operation is in flight the
\* loading flag is true.
C19_LoadingWhilePending ==
    ((\E g \in DOMAIN genOps : genOps[g].pc = "await") \/ writes # <<>>)
        => loading

====
